---- MODULE Spec2Model ----
(***************************************************************************)
(* The js-proxy content collection of shmrep: the schema declared with     *)
(* defineCollection / z.object in the content config, and the loading of   *)
(* markdown documents (front matter + body) into the collection.           *)
(*                                                                         *)
(* A front-matter value is a record [type, ...] whose type is the parsed   *)
(* type the schema library reports for it (string, number, nan, boolean,   *)
(* null); an absent key reads as Undefined.  A number is kept as its       *)
(* integer part val and its tenths frac, so that 1.5 is Num(1, 5).         *)
(*                                                                         *)
(* alone is a history variable: the result of validating each document     *)
(* by itself, before anything is in the collection.                        *)
(***************************************************************************)
EXTENDS Integers, Sequences, FiniteSets, TLC

VARIABLES files, status, collection, errors, collections, alone,
          page, activated

vars == <<files, status, collection, errors, collections, alone,
          page, activated>>

(***************************************************************************)
(* Bounds of the model.                                                    *)
(***************************************************************************)
\* Number of documents in the content directory.
NumDocs == 6

DocIds == 1..NumDocs

(***************************************************************************)
(* Front-matter values.                                                    *)
(***************************************************************************)
Undefined == [type |-> "undefined"]
Null == [type |-> "null"]
NaN == [type |-> "nan"]
Str(s) == [type |-> "string", val |-> s]
Bool(b) == [type |-> "boolean", val |-> b]
Num(i, f) == [type |-> "number", val |-> i, frac |-> f]

\* Sample texts: the empty text, a padded text, a text that reads as a number.
Strings == {Str(""), Str(" Using Reflect "), Str("4")}
\* Sample numbers: the integer 4 and the fraction 1.5.
Numbers == {Num(4, 0), Num(1, 5)}
Values == Strings \cup Numbers \cup {Bool(TRUE), Null, NaN}

\* The keys of the schema, in declaration order.
SchemaKeys == <<"title", "description", "chapterNumber">>
\* A front-matter key the schema does not declare.
ExtraKey == "draft"

FieldOf(data, key) == IF key \in DOMAIN data THEN data[key] ELSE Undefined

(***************************************************************************)
(* The schema: z.object({title: z.string(), description: z.string(),       *)
(* chapterNumber: z.number()}).                                            *)
(***************************************************************************)
\* The default error map: an absent value reads "Required".
Message(expected, received) ==
    IF received = "undefined" THEN <<"Required">>
    ELSE <<"Expected", expected, "received", received>>

InvalidType(key, expected, received) ==
    [code |-> "invalid_type", path |-> key, expected |-> expected,
     received |-> received, message |-> Message(expected, received)]

\* Mutant: z.coerce.string(), which takes numbers and booleans as text.
ZodStringCoerce(key, v) ==
    IF v.type \in {"string", "number", "boolean"} THEN <<>>
    ELSE <<InvalidType(key, "string", v.type)>>

\* Mutant: z.string().min(1), which refuses the empty text.
ZodStringMin1(key, v) ==
    IF v.type # "string" THEN <<InvalidType(key, "string", v.type)>>
    ELSE IF v.val = ""
    THEN <<[code |-> "too_small", path |-> key, expected |-> "string",
            received |-> "string", message |-> <<"too_small">>]>>
    ELSE <<>>

\* z.string(): the issues of parsing value v found under key.
ZodString(key, v) ==
    IF v.type = "string" THEN <<>> ELSE <<InvalidType(key, "string", v.type)>>

\* Mutant: z.coerce.number(), which takes text and booleans as numbers.
ZodNumberCoerce(key, v) ==
    IF v.type \in {"number", "string", "boolean"} THEN <<>>
    ELSE <<InvalidType(key, "number", v.type)>>

\* z.number(): any number that is not NaN; no integer check is declared.
ZodNumber(key, v) ==
    IF v.type = "number" THEN <<>> ELSE <<InvalidType(key, "number", v.type)>>

\* Mutant: description declared z.string().optional().
FieldIssuesOptional(key, v) ==
    IF key = "chapterNumber" THEN ZodNumber(key, v)
    ELSE IF key = "description" /\ v = Undefined THEN <<>>
    ELSE ZodString(key, v)

\* Mutant: chapterNumber declared z.string().
FieldIssuesAllText(key, v) == ZodString(key, v)

FieldIssues(key, v) ==
    IF key = "chapterNumber" THEN ZodNumber(key, v) ELSE ZodString(key, v)

\* Mutant: the texts declared z.string().trim().
StripTrim(data) ==
    [k \in {SchemaKeys[i] : i \in 1..Len(SchemaKeys)} |->
        IF FieldOf(data, k) = Str(" Using Reflect ") THEN Str("Using Reflect")
        ELSE FieldOf(data, k)]

\* Mutant: z.object(...).passthrough(), which keeps undeclared keys.
StripPassthrough(data) == data

\* The output of z.object on success: the declared keys only (unknown keys
\* are stripped), each with the input's value.
Strip(data) ==
    [k \in {SchemaKeys[i] : i \in 1..Len(SchemaKeys)} |-> FieldOf(data, k)]

Issues(data) ==
    FieldIssues(SchemaKeys[1], FieldOf(data, SchemaKeys[1]))
    \o FieldIssues(SchemaKeys[2], FieldOf(data, SchemaKeys[2]))
    \o FieldIssues(SchemaKeys[3], FieldOf(data, SchemaKeys[3]))

\* Mutant: the schema made .partial(): absent keys are let through and the
\* output holds the present keys only.
safeParsePartial(data) ==
    LET present(i) == SchemaKeys[i] \in DOMAIN data
        issuesOf(i) == IF present(i)
                       THEN FieldIssues(SchemaKeys[i], data[SchemaKeys[i]])
                       ELSE <<>>
        issues == issuesOf(1) \o issuesOf(2) \o issuesOf(3)
    IN IF issues = <<>>
       THEN [success |-> TRUE,
             data |-> [k \in {SchemaKeys[i] : i \in 1..Len(SchemaKeys)}
                               \cap DOMAIN data |-> data[k]]]
       ELSE [success |-> FALSE, issues |-> issues]

\* Mutant: a refinement that refuses a chapterNumber already admitted.
safeParseUnique(data) ==
    IF Issues(data) # <<>> THEN [success |-> FALSE, issues |-> Issues(data)]
    ELSE IF \E e \in DOMAIN collection :
              collection[e].data.chapterNumber = data.chapterNumber
    THEN [success |-> FALSE,
          issues |-> <<[code |-> "custom", path |-> "chapterNumber",
                        expected |-> "number", received |-> "number",
                        message |-> <<"duplicate">>]>>]
    ELSE [success |-> TRUE, data |-> Strip(data)]

\* schema.safeParse(data)
safeParse(data) ==
    IF Issues(data) = <<>>
    THEN [success |-> TRUE, data |-> Strip(data)]
    ELSE [success |-> FALSE, issues |-> Issues(data)]

(***************************************************************************)
(* The documents.                                                          *)
(***************************************************************************)
Chapter(t, d, n) ==
    [title |-> Str(t), description |-> Str(d), chapterNumber |-> Num(n, 0)]

\* The four chapters shipped under src/content/js-proxy: front matter and
\* the first line of the body.
Chapter1File ==
    [data |-> Chapter("JavaScript Proxy Object",
                      "Introduction into JavaScript Proxy Objects", 1),
     body |-> "## What is a JS object?"]

Chapter2File ==
    [data |-> Chapter("Iteration with Proxies",
                      "Using Proxies with Arrays, Objects, Sets...", 2),
     body |-> "## Proxy with Arrays"]

Chapter3File ==
    [data |-> Chapter("Proxies in Action", "More examples on Proxies", 3),
     body |-> "## Proxies on Classes"]

\* Mutant: the fourth chapter numbered 3 like the third.
Chapter4FileRenumbered ==
    [data |-> Chapter("Using Reflect",
                      "Use Reflect API to simplify some Proxy handlers", 3),
     body |-> "## What is Reflect?"]

Chapter4File ==
    [data |-> Chapter("Using Reflect",
                      "Use Reflect API to simplify some Proxy handlers", 4),
     body |-> "## What is Reflect?"]

ShippedFiles == <<Chapter1File, Chapter2File, Chapter3File, Chapter4File>>

\* Edits of a chapter: the description removed, the chapter number written
\* as text, the title emptied.
EditedFiles ==
    << [data |-> [title |-> Str("Using Reflect"), chapterNumber |-> Num(4, 0)],
        body |-> "## What is Reflect?"],
       [data |-> [title |-> Str("Chapter"), description |-> Str("desc"),
                  chapterNumber |-> Str("four")],
        body |-> ""],
       [data |-> [title |-> Str(""), description |-> Str("desc"),
                  chapterNumber |-> Num(1, 0)],
        body |-> ""] >>

CorpusFiles == ShippedFiles \o EditedFiles
Corpus == {CorpusFiles[i].data : i \in 1..Len(CorpusFiles)}
Shipped == {ShippedFiles[i].data : i \in 1..Len(ShippedFiles)}

\* Any front matter over the three schema keys and one undeclared key.
AllKeys == {SchemaKeys[i] : i \in 1..Len(SchemaKeys)} \cup {ExtraKey}
FrontMatter ==
    UNION { {f \in [K -> Values] : ExtraKey \in K => f[ExtraKey] = Bool(TRUE)}
            : K \in SUBSET AllKeys }

Bodies == {"", "## What is a JS object?"}

\* The content directories considered: document 1 carries any front matter
\* and either body; documents 2, 3, ... are the shipped chapters followed by
\* their edits, taken in turn.
Directories ==
    { [d \in DocIds |->
          IF d = 1 THEN first
          ELSE CorpusFiles[((d - 2) % Len(CorpusFiles)) + 1]] :
        first \in [data : FrontMatter \cup Corpus, body : Bodies] }

(***************************************************************************)
(* The site, as the navigation smoke test walks it: the pages with the     *)
(* title and level-1 heading the test expects, and the headings and links   *)
(* it activates.  A title stands for the text the test's pattern matches.  *)
(***************************************************************************)
PageTitle ==
    [home |-> "Shmrep", course |-> "JavaScript Proxy/Learn", play |-> "Play"]

PageHeading ==
    [course |-> "Learn about JavaScript Proxy", play |-> "Play"]

\* Mutant: the courses heading opens a list of courses, not the course.
LinksCourseList ==
    [home |-> [courses |-> "courses", play |-> "play"],
     courses |-> [Shmrep |-> "home"],
     course |-> [Shmrep |-> "home"],
     play |-> <<>>]

\* Where the headings and links of each page lead.
Links ==
    [home |-> [courses |-> "course", play |-> "play"],
     course |-> [Shmrep |-> "home"],
     play |-> <<>>]

Init ==
    /\ files \in Directories
    /\ status = [d \in DocIds |-> "Discovered"]
    /\ collection = <<>>
    /\ errors = <<>>
    /\ collections = [name \in {"js-proxy"} |-> SchemaKeys]
    /\ alone = [d \in DocIds |-> safeParse(files[d].data)]
    /\ page = "home"
    /\ activated = "goto"

\* Mutant: the entry joins the collection whatever the schema says.
LoadUnchecked(d) ==
    /\ status[d] = "Discovered"
    /\ LET parsed == safeParse(files[d].data) IN
         /\ status' = [status EXCEPT ![d] =
                          IF parsed.success THEN "Accepted" ELSE "Rejected"]
         /\ collection' = (d :> [data |-> files[d].data, body |-> files[d].body])
                             @@ collection
         /\ errors' = IF parsed.success THEN errors
                      ELSE (d :> parsed.issues) @@ errors
    /\ UNCHANGED <<files, collections, alone, page, activated>>

\* Mutant: one list of issues shared by all documents, so that a document
\* loaded after a rejected one is rejected with it.
LoadSharedIssues(d) ==
    /\ status[d] = "Discovered"
    /\ LET parsed == safeParse(files[d].data)
           earlier == DOMAIN errors
           issues == IF parsed.success THEN <<>> ELSE parsed.issues
       IN
         IF parsed.success /\ earlier = {}
         THEN /\ status' = [status EXCEPT ![d] = "Accepted"]
              /\ collection' = (d :> [data |-> parsed.data, body |-> files[d].body]) @@ collection
              /\ UNCHANGED errors
         ELSE /\ status' = [status EXCEPT ![d] = "Rejected"]
              /\ errors' = (d :> issues) @@ errors
              /\ UNCHANGED collection
    /\ UNCHANGED <<files, collections, alone, page, activated>>

\* Mutant: a rejected document is tried again and let in as it is.
LoadRetry(d) ==
    /\ status[d] # "Accepted"
    /\ LET parsed == safeParse(files[d].data) IN
         IF parsed.success \/ status[d] = "Rejected"
         THEN /\ status' = [status EXCEPT ![d] = "Accepted"]
              /\ collection' = (d :> [data |-> Strip(files[d].data),
                                      body |-> files[d].body]) @@ collection
              /\ UNCHANGED errors
         ELSE /\ status' = [status EXCEPT ![d] = "Rejected"]
              /\ errors' = (d :> parsed.issues) @@ errors
              /\ UNCHANGED collection
    /\ UNCHANGED <<files, collections, alone, page, activated>>

\* Mutant: the parsed record is written back over the front matter read.
LoadNormalising(d) ==
    /\ status[d] = "Discovered"
    /\ LET parsed == safeParse(files[d].data) IN
         IF parsed.success
         THEN /\ status' = [status EXCEPT ![d] = "Accepted"]
              /\ collection' = (d :> [data |-> parsed.data, body |-> files[d].body]) @@ collection
              /\ files' = [files EXCEPT ![d].data = parsed.data]
              /\ UNCHANGED errors
         ELSE /\ status' = [status EXCEPT ![d] = "Rejected"]
              /\ errors' = (d :> parsed.issues) @@ errors
              /\ UNCHANGED <<collection, files>>
    /\ UNCHANGED <<collections, alone, page, activated>>

\* Mutant: the body is looked at, and a document with an empty body is
\* refused.
LoadBodyChecked(d) ==
    /\ status[d] = "Discovered"
    /\ LET parsed == safeParse(files[d].data) IN
         IF parsed.success /\ files[d].body # ""
         THEN /\ status' = [status EXCEPT ![d] = "Accepted"]
              /\ collection' = (d :> [data |-> parsed.data, body |-> files[d].body]) @@ collection
              /\ UNCHANGED errors
         ELSE /\ status' = [status EXCEPT ![d] = "Rejected"]
              /\ errors' = (d :> IF parsed.success THEN <<>> ELSE parsed.issues)
                             @@ errors
              /\ UNCHANGED collection
    /\ UNCHANGED <<files, collections, alone, page, activated>>

\* Loading document d into the collection: its front matter is parsed
\* against the schema; on success the entry (parsed data and body) joins
\* the collection, on failure the issues are reported.
\* Whether a build stops at the first rejected document is the builder's
\* policy; the loads of the other documents are left enabled, which covers
\* every build that stops earlier.
Load(d) ==
    /\ status[d] = "Discovered"
    /\ LET parsed == safeParse(files[d].data) IN
         IF parsed.success
         THEN /\ status' = [status EXCEPT ![d] = "Accepted"]
              /\ collection' = (d :> [data |-> parsed.data, body |-> files[d].body]) @@ collection
              /\ UNCHANGED errors
         ELSE /\ status' = [status EXCEPT ![d] = "Rejected"]
              /\ errors' = (d :> parsed.issues) @@ errors
              /\ UNCHANGED collection
    /\ UNCHANGED <<files, collections, alone, page, activated>>

\* The browser activates a heading or link of the page it shows; the site
\* is browsed once its content has been loaded.
Activate(control) ==
    /\ \A d \in DocIds : status[d] # "Discovered"
    /\ control \in DOMAIN Links[page]
    /\ page' = Links[page][control]
    /\ activated' = control
    /\ UNCHANGED <<files, status, collection, errors, collections, alone>>

Next ==
    \/ \E d \in DocIds : Load(d)
    \/ \E control \in {"courses", "play", "Shmrep"} : Activate(control)

Spec == Init /\ [][Next]_vars

\* The builder goes on loading while a discovered document is left.
FairSpec == Spec /\ WF_vars(\E d \in DocIds : Load(d))

(***************************************************************************)
(* Vocabulary of the properties.                                           *)
(***************************************************************************)
Keys == {SchemaKeys[i] : i \in 1..Len(SchemaKeys)}
Loaded(d) == status[d] # "Discovered"
Present(data, key) == key \in DOMAIN data
IsText(v) == v.type = "string"
IsNumber(v) == v.type = "number"
IsInteger(v) == v.type = "number" /\ v.frac = 0

\* The two kinds of schema validation error: an invalid_type issue whose
\* received type is undefined (message Required) reports a missing field,
\* any other invalid_type issue a type mismatch.
Kind(issue) ==
    IF issue.code = "invalid_type" /\ issue.message = <<"Required">>
    THEN "MissingFieldError"
    ELSE IF issue.code = "invalid_type" THEN "TypeMismatchError"
    ELSE "Other"

\* Document d was rejected with an error of the kind naming the key.
Reports(d, key, kind) ==
    /\ d \in DOMAIN errors
    /\ \E i \in 1..Len(errors[d]) :
          errors[d][i].path = key /\ Kind(errors[d][i]) = kind

\* The front matter has the declared shape: the three keys, text, text,
\* number.
Conforms(data) ==
    /\ Keys \subseteq DOMAIN data
    /\ IsText(data.title)
    /\ IsText(data.description)
    /\ IsNumber(data.chapterNumber)

TypeOK ==
    /\ status \in [DocIds -> {"Discovered", "Accepted", "Rejected"}]
    /\ DOMAIN collection \subseteq DocIds
    /\ DOMAIN errors \subseteq DocIds

(***************************************************************************)
(* Properties.                                                             *)
(***************************************************************************)
\* C1: a loaded document whose title and description are non-empty text and
\* whose chapterNumber is an integer is Accepted, and the admitted title,
\* description and chapterNumber equal the input values.
C1_ValidAcceptedUnchanged ==
    \A d \in DocIds :
        ( /\ Loaded(d)
          /\ \A k \in Keys : Present(files[d].data, k)
          /\ IsText(files[d].data.title) /\ files[d].data.title.val # ""
          /\ IsText(files[d].data.description)
          /\ files[d].data.description.val # ""
          /\ IsInteger(files[d].data.chapterNumber) )
        => /\ status[d] = "Accepted"
           /\ d \in DOMAIN collection
           /\ \A k \in Keys : collection[d].data[k] = files[d].data[k]

\* A padded title and a text that reads as a number came through unchanged.
C1_Witness ==
    /\ status[1] = "Accepted"
    /\ files[1].data.title = Str(" Using Reflect ")
    /\ files[1].data.description = Str("4")
    /\ files[1].data.chapterNumber = Num(4, 0)
    /\ collection[1].data.title = Str(" Using Reflect ")

C3_MissingFieldReported ==
    \A d \in DocIds : \A k \in Keys :
        (Loaded(d) /\ ~Present(files[d].data, k))
        => /\ status[d] = "Rejected"
           /\ d \notin DOMAIN collection
           /\ Reports(d, k, "MissingFieldError")
           /\ ~Reports(d, k, "TypeMismatchError")

\* The description alone was absent and was reported missing.
C3_Witness ==
    /\ status[1] = "Rejected"
    /\ DOMAIN files[1].data = {"title", "chapterNumber"}
    /\ IsText(files[1].data.title)
    /\ IsInteger(files[1].data.chapterNumber)
    /\ Len(errors[1]) = 1
    /\ Reports(1, "description", "MissingFieldError")

\* C4: a loaded document whose title or description is present and not text
\* is Rejected with a TypeMismatchError naming that field, whatever the
\* other fields hold.
C4_NonTextRejected ==
    \A d \in DocIds : \A k \in {"title", "description"} :
        ( /\ Loaded(d)
          /\ Present(files[d].data, k)
          /\ ~IsText(files[d].data[k]) )
        => /\ status[d] = "Rejected"
           /\ d \notin DOMAIN collection
           /\ Reports(d, k, "TypeMismatchError")

\* A title given as a number, the other fields valid, was rejected.
C4_Witness ==
    /\ status[1] = "Rejected"
    /\ Present(files[1].data, "title")
    /\ files[1].data.title = Num(4, 0)
    /\ IsText(FieldOf(files[1].data, "description"))
    /\ IsInteger(FieldOf(files[1].data, "chapterNumber"))
    /\ Reports(1, "title", "TypeMismatchError")

\* C5: every document in the collection is an Accepted document whose
\* front matter has the declared shape; a document not yet loaded or
\* Rejected is not in the collection.
C5_CollectionOnlyAccepted ==
    \A d \in DocIds :
        /\ d \in DOMAIN collection
             => status[d] = "Accepted" /\ Conforms(files[d].data)
        /\ status[d] \in {"Discovered", "Rejected"} => d \notin DOMAIN collection

\* A rejected document stayed out while an accepted one is in.
C5_Witness ==
    /\ status[1] = "Rejected"
    /\ status[2] = "Accepted"
    /\ 1 \notin DOMAIN collection
    /\ 2 \in DOMAIN collection

\* C6: a loaded document either is admitted with a record holding all three
\* fields, each of its declared type, and no error, or is rejected with an
\* error and no record; a document with an invalid or absent field is
\* never admitted.
C6_NoPartialAdmission ==
    \A d \in DocIds :
        /\ Loaded(d) =>
             \/ /\ status[d] = "Accepted"
                /\ d \in DOMAIN collection
                /\ d \notin DOMAIN errors
                /\ Conforms(collection[d].data)
             \/ /\ status[d] = "Rejected"
                /\ d \notin DOMAIN collection
                /\ d \in DOMAIN errors
                /\ Len(errors[d]) >= 1
        /\ ~Conforms(files[d].data) => d \notin DOMAIN collection

\* Two fields were valid, the third absent: nothing was admitted.
C6_Witness ==
    /\ status[1] = "Rejected"
    /\ DOMAIN files[1].data = {"title", "description"}
    /\ IsText(files[1].data.title)
    /\ IsText(files[1].data.description)
    /\ 1 \notin DOMAIN collection
    /\ 1 \in DOMAIN errors

\* C7: a loaded document whose title or description is the empty text, the
\* other fields being valid, is Accepted with its values unchanged.
C7_EmptyTextAccepted ==
    \A d \in DocIds :
        ( /\ Loaded(d)
          /\ Conforms(files[d].data)
          /\ \/ files[d].data.title.val = ""
             \/ files[d].data.description.val = "" )
        => /\ status[d] = "Accepted"
           /\ d \in DOMAIN collection
           /\ collection[d].data.title = files[d].data.title
           /\ collection[d].data.description = files[d].data.description

\* An empty title and an empty description were accepted.
C7_Witness ==
    /\ status[1] = "Accepted"
    /\ files[1].data.title = Str("")
    /\ files[1].data.description = Str("")
    /\ IsInteger(files[1].data.chapterNumber)

\* C8 as stated: every document in the collection has a non-empty title
\* and a non-empty description.
C8_AdmittedNonEmpty ==
    \A d \in DOMAIN collection :
        /\ collection[d].data.title # Str("")
        /\ collection[d].data.description # Str("")

\* C8 amended: every document in the collection has a title and a
\* description that are text, possibly empty.
C8_AdmittedText ==
    \A d \in DOMAIN collection :
        /\ "title" \in DOMAIN collection[d].data
        /\ "description" \in DOMAIN collection[d].data
        /\ IsText(collection[d].data.title)
        /\ IsText(collection[d].data.description)

\* A document with an empty title is a member of the collection.
C8_Witness ==
    /\ 1 \in DOMAIN collection
    /\ collection[1].data.title = Str("")
    /\ collection[1].data.description = Str(" Using Reflect ")

\* C9: the record of every document in the collection holds exactly the
\* keys title, description and chapterNumber, none of them null or
\* undefined, also when the front matter carries an undeclared key.
C9_ExactKeysNonNull ==
    \A d \in DOMAIN collection :
        /\ DOMAIN collection[d].data = Keys
        /\ \A k \in Keys : collection[d].data[k].type \notin {"null", "undefined"}

\* A front matter with an undeclared key was accepted.
C9_Witness ==
    /\ 1 \in DOMAIN collection
    /\ ExtraKey \in DOMAIN files[1].data
    /\ ExtraKey \notin DOMAIN collection[1].data

\* C10: two loaded documents with the same front matter have the same
\* outcome and, when Accepted, the same record, whatever was loaded before
\* or between them.
C10_SameRecordSameResult ==
    \A d1, d2 \in DocIds :
        (Loaded(d1) /\ Loaded(d2) /\ files[d1].data = files[d2].data)
        => /\ status[d1] = status[d2]
           /\ status[d1] = "Accepted"
                => collection[d1].data = collection[d2].data

\* The same front matter was validated twice with another validation made
\* between the two.
C10_Witness ==
    /\ files[1].data = files[5].data
    /\ status[1] = "Accepted" /\ status[5] = "Accepted"
    /\ status[2] = "Accepted"
    /\ status[3] = "Discovered" /\ status[4] = "Discovered"

\* C11: whatever the order in which the documents are loaded, the outcome of
\* a loaded document (Accepted with its record, or Rejected with its
\* issues) is the outcome it has when it is validated alone.
C11_OrderIndependent ==
    \A d \in DocIds :
        Loaded(d) =>
            IF alone[d].success
            THEN /\ status[d] = "Accepted"
                 /\ d \in DOMAIN collection
                 /\ d \notin DOMAIN errors
                 /\ collection[d].data = alone[d].data
            ELSE /\ status[d] = "Rejected"
                 /\ d \notin DOMAIN collection
                 /\ d \in DOMAIN errors
                 /\ errors[d] = alone[d].issues

\* Every document was loaded, rejected and accepted ones among them.
C11_Witness ==
    /\ \A d \in DocIds : Loaded(d)
    /\ status[1] = "Rejected"
    /\ \E d \in DocIds \ {1} : status[d] = "Rejected"
    /\ \E d \in DocIds : status[d] = "Accepted"

Terminal(d) == status[d] \in {"Accepted", "Rejected"}

Held(coll, errs, d) ==
    <<IF d \in DOMAIN coll THEN <<coll[d]>> ELSE <<>>,
      IF d \in DOMAIN errs THEN <<errs[d]>> ELSE <<>> >>

\* C13: a step that validates a document changes the state, record and
\* issues of that document only: the front matter and bodies read, the
\* registry of collections and whatever is held for the other documents
\* stay as they were; an acceptance adds no issues and a rejection no
\* record.
C13_ValidationFrame ==
    [][\A d \in DocIds :
          status'[d] # status[d] =>
              /\ files' = files
              /\ collections' = collections
              /\ \A o \in DocIds \ {d} :
                    /\ status'[o] = status[o]
                    /\ Held(collection', errors', o) = Held(collection, errors, o)
              /\ status'[d] = "Accepted" => errors' = errors
              /\ status'[d] = "Rejected" => collection' = collection]_vars

\* A front matter with an undeclared key was accepted and is still as it
\* was read, next to a rejected document.
C13_Witness ==
    /\ status[1] = "Accepted"
    /\ ExtraKey \in DOMAIN files[1].data
    /\ \E d \in DocIds \ {1} : status[d] = "Rejected" /\ d \in DOMAIN errors
    /\ "js-proxy" \in DOMAIN collections

\* C14: two loaded documents with the same front matter and different
\* bodies have the same outcome, the same record when Accepted and the
\* same issues when Rejected; the body of an admitted document is the body
\* that was read.
C14_BodyIndependent ==
    /\ \A d1, d2 \in DocIds :
          ( /\ Loaded(d1) /\ Loaded(d2)
            /\ files[d1].data = files[d2].data
            /\ files[d1].body # files[d2].body )
          => /\ status[d1] = status[d2]
             /\ Held(collection, errors, d1)[2] = Held(collection, errors, d2)[2]
             /\ status[d1] = "Accepted"
                  => collection[d1].data = collection[d2].data
    /\ \A d \in DOMAIN collection : collection[d].body = files[d].body

\* The same front matter came with an empty body and with a chapter's
\* body: both were accepted, each with its own body.
C14_Witness ==
    /\ files[1].data = files[2].data
    /\ files[1].body = ""
    /\ status[1] = "Accepted" /\ status[2] = "Accepted"
    /\ collection[1].body = ""
    /\ collection[2].body = files[2].body

ShippedDocs == {d \in DocIds : d >= 2 /\ d <= Len(ShippedFiles) + 1}

\* C16: a loaded document carrying the front matter of a shipped chapter is
\* Accepted with that front matter as its record; no shipped chapter is
\* ever Rejected.
C16_ShippedAccepted ==
    /\ \A d \in DocIds :
          (Loaded(d) /\ files[d].data \in Shipped)
          => /\ status[d] = "Accepted"
             /\ d \in DOMAIN collection
             /\ collection[d].data = files[d].data
    /\ \A d \in ShippedDocs :
          /\ files[d] = ShippedFiles[d - 1]
          /\ status[d] # "Rejected"
          /\ d \notin DOMAIN errors

\* The four shipped chapters were loaded and accepted.
C16_Witness ==
    /\ Cardinality(ShippedDocs) = Len(ShippedFiles)
    /\ \A d \in ShippedDocs : status[d] = "Accepted" /\ d \in DOMAIN collection

\* C17: the admitted shipped chapters have pairwise distinct chapter
\* numbers, and once all are admitted their numbers are exactly 1, 2, 3, 4.
\* (That the schema lets two admitted documents share a chapter number is
\* shown by the state C17_Witness.)
C17_ShippedNumbers ==
    /\ \A d, e \in ShippedDocs \cap DOMAIN collection :
          d # e => collection[d].data.chapterNumber
                     # collection[e].data.chapterNumber
    /\ \A d \in ShippedDocs \cap DOMAIN collection :
          IsInteger(collection[d].data.chapterNumber)
    /\ ShippedDocs \subseteq DOMAIN collection
          => {collection[d].data.chapterNumber.val : d \in ShippedDocs}
               = 1..Len(ShippedFiles)

\* All shipped chapters are admitted, and so is another document with the
\* chapter number of one of them.
C17_Witness ==
    /\ ShippedDocs \subseteq DOMAIN collection
    /\ 1 \in DOMAIN collection
    /\ files[1].data \notin Shipped
    /\ \E d \in ShippedDocs :
          collection[1].data.chapterNumber = collection[d].data.chapterNumber
====
